---- MODULE Spec2Model ----
(***************************************************************************)
(* Model of the movie question-answering pipeline of model_integration.py: *)
(* the two-node graph query_db -> reply -> END, schema introspection with  *)
(* its fallback chain, query extraction from model output, query execution *)
(* with failure containment, and the two entry points generate_text and    *)
(* agent_querydb.                                                          *)
(*                                                                         *)
(* Text is a sequence of tokens.  A token is one character (space, newline,*)
(* backtick, quote, a word character) or one indivisible lexeme the code's *)
(* regular expressions look for ("MATCH", "**", "<think>", "</think>",     *)
(* "```", "cypher", "CYPHER QUERY:").                                      *)
(***************************************************************************)
EXTENDS Integers, Sequences, FiniteSets, TLC

\* ------------------------------------------------------------------ bounds
\* longest text given to query extraction
MaxTextLen == 4
\* longest question
MaxQuestionLen == 2
\* longest raw output of the reply model
MaxReplyLen == 2

\* ------------------------------------------------------------------ tokens
SP == "sp"
NL == "nl"
BT == "bt"
QT == "qt"
KW == "MATCH"
WC == "x"
BOLD == "bold"
THINK == "think"
ETHINK == "ethink"
FENCE == "fence"
CYPHER == "cypher"
HEADING == "heading"

Whitespace == {SP, NL}
Backticks == {BT, FENCE}
Quotes == {QT}
\* tokens that begin with a word character, so that no \b lies before them
WordStart == {KW, WC, CYPHER, HEADING}

Min(S) == CHOOSE m \in S : \A n \in S : m <= n
Max(S) == CHOOSE m \in S : \A n \in S : m >= n

Tail2(s, i) == SubSeq(s, i, Len(s))

\* all texts over alphabet A of length at most n
Texts(A, n) == UNION {[1..k -> A] : k \in 0..n}

\* ------------------------------------------------------- string primitives
\* str.strip(chars): drop the characters of cs at both ends
StripChars(s, cs) ==
    LET keep == {i \in 1..Len(s) : s[i] \notin cs}
    IN  IF keep = {} THEN <<>> ELSE SubSeq(s, Min(keep), Max(keep))

\* str.strip()
Strip(s) == StripChars(s, Whitespace)

\* re.sub(r"^[cs]+", "", s)
LStripChars(s, cs) ==
    LET keep == {i \in 1..Len(s) : s[i] \notin cs}
    IN  IF keep = {} THEN <<>> ELSE SubSeq(s, Min(keep), Len(s))

\* re.sub(r"[cs]+$", "", s)
RStripChars(s, cs) ==
    LET keep == {i \in 1..Len(s) : s[i] \notin cs}
    IN  IF keep = {} THEN <<>> ELSE SubSeq(s, 1, Max(keep))

\* index of the first token at or after i that is not whitespace (Len+1 if none)
SkipSpace(s, i) ==
    LET stop == {j \in i..Len(s) : s[j] \notin Whitespace}
    IN  IF stop = {} THEN Len(s) + 1 ELSE Min(stop)

\* str.replace(tok, "")
RECURSIVE RemoveToken(_, _)
RemoveToken(s, tok) ==
    IF s = <<>> THEN <<>>
    ELSE IF Head(s) = tok THEN RemoveToken(Tail(s), tok)
    ELSE <<Head(s)>> \o RemoveToken(Tail(s), tok)

\* str.splitlines()
RECURSIVE SplitLines(_)
SplitLines(s) ==
    IF s = <<>> THEN <<>>
    ELSE LET nls == {i \in 1..Len(s) : s[i] = NL}
         IN  IF nls = {} THEN <<s>>
             ELSE <<SubSeq(s, 1, Min(nls) - 1)>> \o SplitLines(Tail2(s, Min(nls) + 1))

\* " ".join(lines)
RECURSIVE JoinLines_space(_)
JoinLines_space(lines) ==
    IF lines = <<>> THEN <<>>
    ELSE IF Len(lines) = 1 THEN lines[1]
    ELSE lines[1] \o <<SP>> \o JoinLines_space(Tail(lines))

\* "\n".join(lines)
RECURSIVE JoinLines(_)
JoinLines(lines) ==
    IF lines = <<>> THEN <<>>
    ELSE IF Len(lines) = 1 THEN lines[1]
    ELSE lines[1] \o <<NL>> \o JoinLines(Tail(lines))

\* re.sub(r"<think>[\s\S]*?</think>", "", text): every leftmost, shortest
\* <think>...</think> span is removed, scanning on after each match
RECURSIVE RemoveThink(_)
RemoveThink(s) ==
    LET opens == {i \in 1..Len(s) : s[i] = THINK /\ \E j \in (i+1)..Len(s) : s[j] = ETHINK}
    IN  IF opens = {} THEN s
        ELSE LET i == Min(opens)
                 j == Min({k \in (i+1)..Len(s) : s[k] = ETHINK})
             IN  SubSeq(s, 1, i - 1) \o RemoveThink(Tail2(s, j + 1))

\* re.sub(r"<think>.*?</think>\s*", "", answer, flags=re.DOTALL): as above,
\* and the whitespace that follows each span goes with it
RECURSIVE RemoveThinkAndSpace(_)
RemoveThinkAndSpace(s) ==
    LET opens == {i \in 1..Len(s) : s[i] = THINK /\ \E j \in (i+1)..Len(s) : s[j] = ETHINK}
    IN  IF opens = {} THEN s
        ELSE LET i == Min(opens)
                 j == Min({k \in (i+1)..Len(s) : s[k] = ETHINK})
             IN  SubSeq(s, 1, i - 1) \o RemoveThinkAndSpace(Tail2(s, SkipSpace(s, j + 1)))

\* --------------------------------------------------------- query extraction
NoMatch == <<"nomatch">>

\* re.search(r"```\s*[Cc]ypher\s+([\s\S]*?)```", cleaned): group 1, or NoMatch
CypherFence(s) ==
    LET starts == {i \in 1..Len(s) :
                     /\ s[i] = FENCE
                     /\ LET p == SkipSpace(s, i + 1)
                        IN  /\ p + 1 <= Len(s)
                            /\ s[p] = CYPHER
                            /\ s[p + 1] \in Whitespace
                            /\ \E j \in SkipSpace(s, p + 1)..Len(s) : s[j] = FENCE}
    IN  IF starts = {} THEN NoMatch
        ELSE LET i == Min(starts)
                 r == SkipSpace(s, SkipSpace(s, i + 1) + 1)
                 j == Min({k \in r..Len(s) : s[k] = FENCE})
             IN  SubSeq(s, r, j - 1)

\* re.search(r"```\s*([\s\S]*?)```", cleaned): group 1, or NoMatch
AnyFence(s) ==
    LET starts == {i \in 1..Len(s) :
                     /\ s[i] = FENCE
                     /\ \E j \in SkipSpace(s, i + 1)..Len(s) : s[j] = FENCE}
    IN  IF starts = {} THEN NoMatch
        ELSE LET i == Min(starts)
                 r == SkipSpace(s, i + 1)
                 j == Min({k \in r..Len(s) : s[k] = FENCE})
             IN  SubSeq(s, r, j - 1)

\* re.sub(r"(?i)^\s*cypher\s+query\s*:\s*", "", reduced): only at the start
RemoveHeading(s) ==
    LET p == SkipSpace(s, 1)
    IN  IF p <= Len(s) /\ s[p] = HEADING THEN Tail2(s, SkipSpace(s, p + 1)) ELSE s

\* re.match(r"^(MATCH|CALL|...)\b", ln, re.IGNORECASE)
LooksLikeCypher(ln) ==
    /\ Len(ln) >= 1
    /\ ln[1] = KW
    /\ (Len(ln) >= 2 => ln[2] \notin WordStart)

\* [ln.strip() for ln in reduced.splitlines()]
StrippedLines(s) ==
    LET ls == SplitLines(s) IN [i \in 1..Len(ls) |-> Strip(ls[i])]

\* the contiguous non-empty lines from start_idx on
CollectBlock(lines, start) ==
    LET blanks == {i \in start..Len(lines) : lines[i] = <<>>}
    IN  IF blanks = {} THEN SubSeq(lines, start, Len(lines))
        ELSE SubSeq(lines, start, Min(blanks) - 1)

\* the heuristic line scan of the branch without a fenced block
LineScan(cleaned) ==
    LET reduced == RemoveHeading(RemoveToken(cleaned, BOLD))
        lines   == StrippedLines(reduced)
        hits    == {i \in 1..Len(lines) : LooksLikeCypher(lines[i])}
    IN  IF hits # {} THEN Strip(JoinLines(CollectBlock(lines, Min(hits))))
        ELSE Strip(cleaned)

\* the final cleanup of the candidate
FinalCleanup(candidate) ==
    LET c1 == Strip(StripChars(Strip(candidate), Backticks))
        c2 == RStripChars(LStripChars(c1, Backticks), Backticks)
    IN  RStripChars(LStripChars(c2, Quotes), Quotes)

extract_cypher_from_text(text) ==
    IF text = <<>> THEN <<>>
    ELSE LET cleaned == RemoveThink(text)
             tagged  == CypherFence(cleaned)
             match   == IF tagged # NoMatch THEN tagged ELSE AnyFence(cleaned)
             candidate == IF match # NoMatch THEN Strip(match) ELSE LineScan(cleaned)
         IN  FinalCleanup(candidate)

\* ------------------------------------------------- exceptions and messages
NoExc == "none"
ValueError == "ValueError: question is required in the state"
ConfigError == "NEO4J_URI, NEO4J_USERNAME, and NEO4J_PASSWORD must be set in the environment."
LLMError == "language model client error"
TypeError == "TypeError: Object is not JSON serializable"
DriverError == "driver creation failed"
SessionError == "session open failed"
CloseError == "driver close failed"
LabelsError == "db.labels failed"
\* messages of the exceptions session.run(cypher) raises
ExecMessages == {"syntax error", "connection fault"}

\* --------------------------------------------------------------- the state
\* dict.get(key, default)
Get(d, key, default) == IF key \in DOMAIN d THEN d[key] ELSE default

\* the merge of a node's returned keys into the running GraphState
Merge(state, update) == update @@ state

\* a value (a graph-store temporal value) json.dumps cannot serialise
Opaque == "<DateTime>"
JsonSerializable(rows) == \A i \in 1..Len(rows) : \A k \in DOMAIN rows[i] : rows[i][k] # Opaque

\* ------------------------------------------------------------ graph store
\* the credentials check left out
get_neo4j_driver_unchecked(creds, outcome) ==
    IF outcome = "fail" THEN [exc |-> DriverError] ELSE [exc |-> NoExc]

\* _get_neo4j_driver: raises when a credential is missing, else GraphDatabase.driver
get_neo4j_driver(creds, outcome) ==
    IF ~creds THEN [exc |-> ConfigError]
    ELSE IF outcome = "fail" THEN [exc |-> DriverError]
    ELSE [exc |-> NoExc]

\* outcomes of the external calls of one schema introspection
IntrospectOutcomes ==
    [driver : {"ok", "fail"}, session : {"ok", "fail"}, viz : {"ok", "none", "fail"},
     labels : {"ok", "fail"}, rel1 : {"ok", "empty", "fail"}, rel2 : {"ok", "empty", "fail"},
     close : {"ok", "fail"}]

NotRun == "notrun"
NoCalls == [viz |-> NotRun, labels |-> NotRun, rel1 |-> NotRun, rel2 |-> NotRun]

SchemaFull == "Node labels: Movie, Person; Relationship types: ACTED_IN"
SchemaLabels == "Node labels: Movie, Person"
SchemaEmpty == ""

\* the body of "with driver.session() as session": the calls made with their
\* outcomes, and either the value returned or the exception leaving the block
IntrospectSession(o) ==
    IF o.session = "fail" THEN [calls |-> NoCalls, exc |-> SessionError, result |-> SchemaEmpty]
    ELSE IF o.viz = "none"
        THEN [calls |-> [NoCalls EXCEPT !.viz = "none"], exc |-> NoExc, result |-> SchemaEmpty]
    ELSE IF o.viz = "ok"
        THEN [calls |-> [NoCalls EXCEPT !.viz = "ok"], exc |-> NoExc, result |-> SchemaFull]
    ELSE IF o.labels = "fail"
        THEN [calls |-> [NoCalls EXCEPT !.viz = "fail", !.labels = "fail"],
              exc |-> LabelsError, result |-> SchemaEmpty]
    ELSE LET c1 == [NoCalls EXCEPT !.viz = "fail", !.labels = "ok", !.rel1 = o.rel1]
             c2 == IF o.rel1 = "fail" THEN [c1 EXCEPT !.rel2 = o.rel2] ELSE c1
             rel_types == (o.rel1 = "ok") \/ (o.rel1 = "fail" /\ o.rel2 = "ok")
         IN  [calls |-> c2, exc |-> NoExc,
              result |-> IF rel_types THEN SchemaFull ELSE SchemaLabels]

\* the outer handler left out: the failure leaves the function
IntrospectExcept_propagate(r) == r

\* the outer "except Exception: return ''" of _introspect_schema_text
IntrospectExcept(r) ==
    IF r.exc # NoExc THEN [r EXCEPT !.exc = NoExc, !.result = SchemaEmpty] ELSE r

\* _introspect_schema_text: result, exception (none escapes), calls made, and
\* what became of the driver
introspect_schema_text(creds, o) ==
    LET d == get_neo4j_driver(creds, o.driver)
    IN  IF d.exc # NoExc
        THEN [result |-> SchemaEmpty, exc |-> NoExc, calls |-> NoCalls, driver |-> "none",
              events |-> <<"introspect", "get_driver">>]
        ELSE LET r == IntrospectExcept(IntrospectSession(o))
             IN  [result |-> r.result, exc |-> r.exc, calls |-> r.calls,
                  driver |-> IF o.close = "ok" THEN "closed" ELSE "close_failed",
                  events |-> <<"introspect", "get_driver", "session", "close">>]

\* outcomes of the external calls of one query execution
RunOutcomes ==
    [driver : {"ok", "fail"}, session : {"ok", "fail"},
     run : {"empty", "rows", "opaque"} \cup ExecMessages, close : {"ok", "fail"}]

ResultRows(kind) ==
    IF kind = "rows" THEN <<[name |-> "Keanu Reeves"]>>
    ELSE IF kind = "opaque" THEN <<[born |-> Opaque]>>
    ELSE <<>>

\* _run_cypher: rows or the exception raised, and what became of the driver
run_cypher(creds, cypher, o) ==
    LET d == get_neo4j_driver(creds, o.driver)
    IN  IF d.exc # NoExc
            THEN [exc |-> d.exc, rows |-> <<>>, driver |-> "none", events |-> <<"get_driver">>]
        ELSE IF o.session = "fail"
            THEN [exc |-> SessionError, rows |-> <<>>, driver |-> "open",
                  events |-> <<"get_driver", "session">>]
        ELSE IF o.run \in ExecMessages
            THEN [exc |-> o.run, rows |-> <<>>, driver |-> "open",
                  events |-> <<"get_driver", "session", "run">>]
        ELSE IF o.close = "fail"
            THEN [exc |-> CloseError, rows |-> <<>>, driver |-> "close_failed",
                  events |-> <<"get_driver", "session", "run", "close">>]
        ELSE [exc |-> NoExc, rows |-> ResultRows(o.run), driver |-> "closed",
              events |-> <<"get_driver", "session", "run", "close">>]

\* a call of _run_cypher that is never made: no rows, nothing started
execute_query_skip_empty(creds, cypher, o) ==
    IF cypher = <<>>
    THEN [exc |-> NoExc, rows |-> <<>>, driver |-> "none", events |-> <<>>]
    ELSE LET r == run_cypher(creds, cypher, o)
         IN  [r EXCEPT !.events = <<"execute">> \o r.events]

\* _query_db_node, line 215: _run_cypher is called with whatever was synthesized
execute_query(creds, cypher, o) ==
    LET r == run_cypher(creds, cypher, o)
    IN  [r EXCEPT !.events = <<"execute">> \o r.events]

\* the exception handler left out: the failure leaves the node
query_db_rows_propagate(r) ==
    IF r.exc # NoExc THEN [exc |-> r.exc, rows |-> <<>>]
    ELSE [exc |-> NoExc, rows |-> r.rows]

\* the failure swallowed without its message
query_db_rows_swallow(r) ==
    IF r.exc # NoExc THEN [exc |-> NoExc, rows |-> <<>>]
    ELSE [exc |-> NoExc, rows |-> r.rows]

\* the try/except of _query_db_node around _run_cypher
query_db_rows(r) ==
    IF r.exc # NoExc THEN [exc |-> NoExc, rows |-> <<[error |-> r.exc]>>]
    ELSE [exc |-> NoExc, rows |-> r.rows]

\* --------------------------------------------------------- language model
\* outcome of one completion: the client cannot be created, the request
\* raises, the content is None, or the content is a text
LLMOutcomes(texts) ==
    {[kind |-> "client_error"], [kind |-> "request_error"], [kind |-> "none"]}
    \cup {[kind |-> "text", text |-> t] : t \in texts}

\* (completion.choices[0].message.content or "")
Content(o) == IF o.kind = "text" THEN o.text ELSE <<>>

\* _generate_cypher_from_question
generate_cypher_from_question(o) ==
    IF o.kind = "client_error"
        THEN [exc |-> LLMError, cypher |-> <<>>, events |-> <<"create_client">>]
    ELSE IF o.kind = "request_error"
        THEN [exc |-> LLMError, cypher |-> <<>>, events |-> <<"create_client", "synthesis">>]
    ELSE [exc |-> NoExc, cypher |-> extract_cypher_from_text(Strip(Content(o))),
          events |-> <<"create_client", "synthesis">>]

\* the question tested without being stripped
required_question_unstripped(state) == Get(state, "question", <<>>)

\* the first lines of _query_db_node: the question it requires
required_question(state) == Strip(Get(state, "question", <<>>))

\* the stripped question written back with the computed keys
query_db_update_with_question(question, schema_text, cypher, rows) ==
    [question |-> question, schema |-> schema_text, cypher |-> cypher, rows |-> rows]

\* the keys _query_db_node returns
query_db_update(question, schema_text, cypher, rows) ==
    [schema |-> schema_text, cypher |-> cypher, rows |-> rows]

\* _reply_node: the keys it returns, or the exception that leaves it
reply_node(state, o) ==
    LET rows == Get(state, "rows", <<>>)
    IN  IF o.kind = "client_error"
            THEN [exc |-> LLMError, update |-> <<>>, rows |-> rows, events |-> <<"create_client">>]
        ELSE IF ~JsonSerializable(rows)
            THEN [exc |-> TypeError, update |-> <<>>, rows |-> rows, events |-> <<"create_client">>]
        ELSE IF o.kind = "request_error"
            THEN [exc |-> LLMError, update |-> <<>>, rows |-> rows,
                  events |-> <<"create_client", "reply">>]
        ELSE [exc |-> NoExc, update |-> [answer |-> Strip(Content(o))], rows |-> rows,
              events |-> <<"create_client", "reply">>]

\* what each entry point returns from the final state
generate_text_answer(final) == Strip(RemoveThinkAndSpace(Get(final, "answer", <<>>)))
agent_querydb_answer(final) == Get(final, "answer", <<>>)

\* ------------------------------------------------------------- input sets
QuestionAlphabet == {SP, WC}
Questions == Texts(QuestionAlphabet, MaxQuestionLen)
\* raw outputs of the query-synthesis model
SynthTexts == {<<>>, <<KW>>, <<KW, SP, WC>>, <<SP, KW, NL>>, <<THINK, ETHINK>>,
               <<THINK, WC, ETHINK, KW>>, <<FENCE, KW, FENCE>>, <<QT, KW, QT>>}
\* raw outputs of the reply model
ReplyAlphabet == {THINK, ETHINK, SP, WC}
ReplyTexts == Texts(ReplyAlphabet, MaxReplyLen)
\* texts given to query extraction on its own
ExtractAlphabet == {KW, WC, SP, NL, BT, QT, BOLD, THINK, ETHINK, FENCE, CYPHER, HEADING}
ExtractTexts == Texts(ExtractAlphabet, MaxTextLen)

\* ------------------------------------------------------------------ state
VARIABLES
    entry,      \* the entry point invoked: "generate_text" or "agent_querydb"
    input,      \* the question the caller passed
    creds,      \* whether NEO4J_URI, NEO4J_USERNAME and NEO4J_PASSWORD are all set
    pc,         \* position of the invocation
    state,      \* the GraphState dict: only the keys written so far are present
    loc,        \* locals of _query_db_node: question, schema_text, cypher
    raised,     \* the exception that left the invocation, or NoExc
    trace,      \* external operations started so far, in order
    nodes,      \* graph nodes entered so far, in order
    intro,      \* schema introspection: outcome of each graph-store call made
    drv,        \* the driver of each graph-store operation: none/open/closed/close_failed
    execExc,    \* message of the exception _run_cypher raised, or NoExc
    replyRows,  \* the rows the reply node serialised into its prompt
    rawReply,   \* the content of the reply completion
    returned,   \* the value the entry point returned
    text,       \* query extraction on its own: the input text
    out1,       \* its extraction
    out2,       \* the extraction of out1
    xpc         \* how many times extraction has been applied

vars == <<entry, input, creds, pc, state, loc, raised, trace, nodes, intro, drv,
          execExc, replyRows, rawReply, returned, text, out1, out2, xpc>>

pipelineVars == <<entry, input, creds, pc, state, loc, raised, trace, nodes, intro, drv,
                  execExc, replyRows, rawReply, returned>>
extractVars == <<text, out1, out2, xpc>>

NoLocals == [question |-> <<>>, schema_text |-> SchemaEmpty, cypher |-> <<>>]
NoDrivers == [introspect |-> "none", run |-> "none"]

\* app.invoke({"question": question}) from either entry point
Init ==
    /\ entry \in {"generate_text", "agent_querydb"}
    /\ input \in Questions
    /\ creds \in BOOLEAN
    /\ pc = "query_db"
    /\ state = [question |-> input]
    /\ loc = NoLocals
    /\ raised = NoExc
    /\ trace = <<>>
    /\ nodes = <<>>
    /\ intro = NoCalls
    /\ drv = NoDrivers
    /\ execExc = NoExc
    /\ replyRows = <<>>
    /\ rawReply = <<>>
    /\ returned = <<>>
    /\ text = <<>> /\ out1 = <<>> /\ out2 = <<>> /\ xpc = "off"

\* _query_db_node, lines 207-209: the question is required
QueryDbValidate ==
    /\ pc = "query_db"
    /\ nodes' = Append(nodes, "query_db")
    /\ LET question == required_question(state)
       IN  IF question = <<>>
           THEN /\ raised' = ValueError
                /\ pc' = "raised"
                /\ loc' = loc
           ELSE /\ raised' = raised
                /\ pc' = "introspect"
                /\ loc' = [loc EXCEPT !.question = question]
    /\ UNCHANGED <<entry, input, creds, state, trace, intro, drv, execExc, replyRows,
                   rawReply, returned, extractVars>>

\* _query_db_node, line 211: schema_text = _introspect_schema_text()
IntrospectSchema ==
    /\ pc = "introspect"
    /\ \E o \in IntrospectOutcomes :
         LET r == introspect_schema_text(creds, o)
         IN  /\ trace' = trace \o r.events
             /\ intro' = r.calls
             /\ drv' = [drv EXCEPT !.introspect = r.driver]
             /\ IF r.exc # NoExc
                THEN /\ raised' = r.exc
                     /\ pc' = "raised"
                     /\ loc' = loc
                ELSE /\ raised' = raised
                     /\ pc' = "generate"
                     /\ loc' = [loc EXCEPT !.schema_text = r.result]
    /\ UNCHANGED <<entry, input, creds, state, nodes, execExc, replyRows, rawReply,
                   returned, extractVars>>

\* _query_db_node, line 212: cypher = _generate_cypher_from_question(...)
GenerateCypher ==
    /\ pc = "generate"
    /\ \E o \in LLMOutcomes(SynthTexts) :
         LET r == generate_cypher_from_question(o)
         IN  /\ trace' = trace \o r.events
             /\ IF r.exc # NoExc
                THEN /\ raised' = r.exc
                     /\ pc' = "raised"
                     /\ loc' = loc
                ELSE /\ raised' = raised
                     /\ pc' = "run"
                     /\ loc' = [loc EXCEPT !.cypher = r.cypher]
    /\ UNCHANGED <<entry, input, creds, state, nodes, intro, drv, execExc, replyRows,
                   rawReply, returned, extractVars>>

\* _query_db_node, lines 214-220: run the query, contain its failure, return
\* the keys computed; the graph merges them and moves on to reply
RunCypher ==
    /\ pc = "run"
    /\ \E o \in RunOutcomes :
         LET r == execute_query(creds, loc.cypher, o)
             c == query_db_rows(r)
         IN  /\ trace' = trace \o r.events
             /\ drv' = [drv EXCEPT !.run = r.driver]
             /\ execExc' = r.exc
             /\ IF c.exc # NoExc
                THEN /\ raised' = c.exc
                     /\ pc' = "raised"
                     /\ state' = state
                ELSE /\ raised' = raised
                     /\ pc' = "reply"
                     /\ state' = Merge(state, query_db_update(loc.question, loc.schema_text,
                                                              loc.cypher, c.rows))
    /\ UNCHANGED <<entry, input, creds, loc, nodes, intro, replyRows, rawReply,
                   returned, extractVars>>

\* _reply_node; the graph merges the keys it returns and reaches END
ReplyNode ==
    /\ pc = "reply"
    /\ nodes' = Append(nodes, "reply")
    /\ \E o \in LLMOutcomes(ReplyTexts) :
         LET r == reply_node(state, o)
         IN  /\ trace' = trace \o r.events
             /\ replyRows' = r.rows
             /\ IF r.exc # NoExc
                THEN /\ raised' = r.exc
                     /\ pc' = "raised"
                     /\ state' = state
                     /\ rawReply' = rawReply
                ELSE /\ raised' = raised
                     /\ pc' = "END"
                     /\ state' = Merge(state, r.update)
                     /\ rawReply' = Content(o)
    /\ UNCHANGED <<entry, input, creds, loc, intro, drv, execExc, returned, extractVars>>

\* generate_text, lines 273-279: strip the reasoning block, store and return
GenerateTextReturn ==
    /\ pc = "END"
    /\ entry = "generate_text"
    /\ returned' = generate_text_answer(state)
    /\ state' = Merge(state, [answer |-> returned'])
    /\ pc' = "returned"
    /\ UNCHANGED <<entry, input, creds, loc, raised, trace, nodes, intro, drv, execExc,
                   replyRows, rawReply, extractVars>>

\* agent_querydb, line 267: return the final state's answer
AgentQuerydbReturn ==
    /\ pc = "END"
    /\ entry = "agent_querydb"
    /\ returned' = agent_querydb_answer(state)
    /\ pc' = "returned"
    /\ UNCHANGED <<entry, input, creds, state, loc, raised, trace, nodes, intro, drv,
                   execExc, replyRows, rawReply, extractVars>>

Next ==
    \/ QueryDbValidate
    \/ IntrospectSchema
    \/ GenerateCypher
    \/ RunCypher
    \/ ReplyNode
    \/ GenerateTextReturn
    \/ AgentQuerydbReturn

Spec == Init /\ [][Next]_vars

\* --------------------------------------- query extraction applied on its own
InitExtract ==
    /\ text \in ExtractTexts
    /\ out1 = <<>> /\ out2 = <<>> /\ xpc = "input"
    /\ entry = "generate_text" /\ input = <<WC>> /\ creds = TRUE /\ pc = "off"
    /\ state = [question |-> input] /\ loc = NoLocals /\ raised = NoExc
    /\ trace = <<>> /\ nodes = <<>> /\ intro = NoCalls /\ drv = NoDrivers
    /\ execExc = NoExc /\ replyRows = <<>> /\ rawReply = <<>> /\ returned = <<>>

\* cypher = _extract_cypher_from_text(raw)
Extract ==
    /\ xpc = "input"
    /\ out1' = extract_cypher_from_text(text)
    /\ xpc' = "once"
    /\ UNCHANGED <<text, out2, pipelineVars>>

\* extraction applied to its own output
ExtractAgain ==
    /\ xpc = "once"
    /\ out2' = extract_cypher_from_text(out1)
    /\ xpc' = "twice"
    /\ UNCHANGED <<text, out1, pipelineVars>>

NextExtract == Extract \/ ExtractAgain

SpecExtract == InitExtract /\ [][NextExtract]_vars

\* ------------------------------------------------------------- properties
Range(f) == {f[i] : i \in DOMAIN f}
IsPrefix(a, b) == Len(a) <= Len(b) /\ a = SubSeq(b, 1, Len(a))
IsCall(e) == e \in {"introspect", "synthesis", "execute", "reply"}
\* the pipeline's external operations among the events of the trace
Requests(t) == SelectSeq(t, IsCall)
FullOrder == <<"introspect", "synthesis", "execute", "reply">>
BothNodes == <<"query_db", "reply">>
NonEmptyQuestion == Strip(input) # <<>>

\* C1, as stated: for a non-empty question no stage-internal failure escapes;
\* the only exception an invocation can raise is the entry-validation error.
C1_OnlyValidationEscapes ==
    pc = "raised" => raised = ValueError

\* C1, amended: no graph-store failure (credentials, driver, session,
\* introspection calls, execution, close) escapes; what can leave an invocation
\* is the entry-validation error (empty question, before anything is called), a
\* language-model client error (right after a client creation or a completion
\* request), or the JSON serialisation error of the reply stage.
C1_GraphStoreFailuresContained ==
    /\ pc = "raised" => raised \in {ValueError, LLMError, TypeError}
    /\ raised = ValueError => ~NonEmptyQuestion /\ trace = <<>> /\ nodes = <<"query_db">>
    /\ raised = LLMError =>
         /\ NonEmptyQuestion
         /\ trace[Len(trace)] \in {"create_client", "synthesis", "reply"}
    /\ raised = TypeError => nodes = BothNodes /\ ~JsonSerializable(state.rows)
    /\ (pc = "raised" /\ nodes = <<"query_db">> /\ NonEmptyQuestion) =>
         (raised = LLMError /\ "execute" \notin Range(trace))
    /\ pc \in {"reply", "END", "returned"} => raised = NoExc

C1_Witness ==
    /\ pc = "END"
    /\ intro.viz = "fail" /\ intro.labels = "fail"
    /\ execExc \in ExecMessages

\* C2: when executing the synthesized query raises with message m, query_db
\* ends with rows = [{"error": m}], the reply stage runs with those rows, and
\* the final state has an answer.
C2_ExecutionFailureContained ==
    execExc # NoExc =>
        /\ "rows" \in DOMAIN state
        /\ state.rows = <<[error |-> execExc]>>
        /\ pc \in {"reply", "END", "returned", "raised"}
        /\ pc # "reply" => nodes = BothNodes /\ replyRows = state.rows
        /\ pc \in {"END", "returned"} => "answer" \in DOMAIN state

C2_Witness ==
    /\ pc = "END"
    /\ execExc = "syntax error"
    /\ replyRows = <<[error |-> "syntax error"]>>
    /\ "answer" \in DOMAIN state

\* C3: an empty or whitespace-only question fails with the validation error
\* before any call to the graph store or to the language model client.
C3_EmptyQuestionFailsFast ==
    (~NonEmptyQuestion /\ pc # "query_db") =>
        /\ pc = "raised"
        /\ raised = ValueError
        /\ trace = <<>>

C3_Witness ==
    /\ pc = "raised"
    /\ Len(input) >= 1
    /\ Strip(input) = <<>>

\* C4: every driver acquired by schema introspection or by query execution has
\* been released when that operation has returned, on every exit path.
C4_DriversReleased ==
    /\ drv.introspect # "open"
    /\ drv.run # "open"

\* C5, as stated: with the credentials missing, a non-empty question ends in
\* the configuration error raised to the caller.
C5_ConfigErrorFatal ==
    (~creds /\ NonEmptyQuestion /\ pc \notin {"query_db", "introspect"}) =>
        (pc = "raised" /\ raised = ConfigError)

\* C5, amended: with the credentials missing the configuration error is raised
\* at each connection attempt and caught: introspection makes no call and
\* yields the empty schema, query_db ends with the one error row that carries
\* the configuration message, and the error never reaches the caller.
C5_ConfigErrorContained ==
    ~creds =>
        /\ raised # ConfigError
        /\ intro = NoCalls
        /\ loc.schema_text = SchemaEmpty
        /\ pc \in {"run", "reply", "END", "returned"} => "session" \notin Range(trace)
        /\ pc \in {"reply", "END", "returned"} =>
             /\ execExc = ConfigError
             /\ state.schema = SchemaEmpty
             /\ state.rows = <<[error |-> ConfigError]>>

C5_Witness ==
    /\ ~creds
    /\ pc = "END"
    /\ state.rows = <<[error |-> ConfigError]>>

\* C6, as stated: whenever the primary schema-visualization call fails, the
\* label listing and both variants of the relationship-type listing are
\* attempted.
C6_AllFallbacksAttempted ==
    intro.viz = "fail" =>
        /\ intro.labels # NotRun
        /\ intro.rel1 # NotRun
        /\ intro.rel2 # NotRun

\* C6, amended: when the primary call fails the label listing is attempted; the
\* first relationship-type listing is attempted exactly when the label listing
\* succeeded, the second variant exactly when the first one failed; when the
\* primary call and the label listing fail the result is the empty string and
\* no exception leaves; when both variants fail the labels are still reported.
C6_FallbackChain ==
    /\ intro.labels # NotRun <=> intro.viz = "fail"
    /\ intro.rel1 # NotRun <=> intro.labels = "ok"
    /\ intro.rel2 # NotRun <=> intro.rel1 = "fail"
    /\ (intro.viz = "fail" /\ intro.labels = "fail") =>
         /\ raised # LabelsError
         /\ loc.schema_text = SchemaEmpty
         /\ pc # "introspect"
    /\ (intro.rel1 = "fail" /\ intro.rel2 = "fail") => loc.schema_text = SchemaLabels
    /\ raised \notin {LabelsError, SessionError, DriverError}

C6_Witness ==
    /\ pc = "generate"
    /\ intro.viz = "fail" /\ intro.labels = "fail"
    /\ loc.schema_text = SchemaEmpty

\* C7: the answer of the answer stage, and the answer each entry point returns,
\* is the raw reply output with every <think>...</think> block removed and the
\* surrounding whitespace trimmed.
C7_ThinkStripped ==
    /\ pc = "END" => state.answer = Strip(RemoveThink(rawReply))
    /\ pc = "returned" => returned = Strip(RemoveThink(rawReply))

\* C8, as stated: a text with no code fence and no reasoning tag is returned
\* unchanged apart from whitespace, backticks and quotes trimmed at its ends,
\* and extracting again returns the same.
Bare(t) == Range(t) \cap {FENCE, THINK, ETHINK} = {}
TrimEnds(t) == StripChars(t, Whitespace \cup Backticks \cup Quotes)

KeywordBlock(t) ==
    /\ Range(t) \cap {FENCE, THINK, ETHINK, BOLD} = {}
    /\ LooksLikeCypher(t)
    /\ t[Len(t)] \notin Whitespace
    /\ \A i \in 1..Len(t) : t[i] = NL =>
         /\ 1 < i /\ i < Len(t)
         /\ t[i - 1] \notin Whitespace
         /\ t[i + 1] \notin Whitespace

C9_EachCallExactlyOnce ==
    (NonEmptyQuestion /\ pc \in {"END", "returned", "raised"}) =>
        Requests(trace) = FullOrder

\* C9, amended: the calls are made in the order introspection, synthesis
\* request, execution, reply request, each at most once and none before the
\* one it follows; an invocation that reaches the terminal state has made each
\* exactly once; the execution is attempted whatever was synthesized, the empty
\* query included; an invocation that raises has made only a prefix of them.
C9_CallOrder ==
    /\ IsPrefix(Requests(trace), FullOrder)
    /\ pc = "run" => Requests(trace) = <<"introspect", "synthesis">>
    /\ pc = "reply" => Requests(trace) = <<"introspect", "synthesis", "execute">>
    /\ pc \in {"END", "returned"} => Requests(trace) = FullOrder

C9_Witness ==
    /\ pc = "END"
    /\ state.cypher = <<>>
    /\ Requests(trace) = FullOrder

\* C10: query_db writes exactly schema, cypher and rows, reply writes exactly
\* answer, and neither changes another key; so question is always the caller's
\* input, answer is unset until reply completes, and rows is a sequence once
\* query_db has completed.
C10_Keys ==
    /\ "question" \in DOMAIN state
    /\ state.question = input
    /\ pc \in {"query_db", "introspect", "generate", "run"} => DOMAIN state = {"question"}
    /\ pc = "reply" => DOMAIN state = {"question", "schema", "cypher", "rows"}
    /\ pc \in {"END", "returned"} =>
         DOMAIN state = {"question", "schema", "cypher", "rows", "answer"}
    /\ pc = "raised" => "answer" \notin DOMAIN state
    /\ "rows" \in DOMAIN state => DOMAIN state.rows = 1..Len(state.rows)

C10_Step ==
    /\ (pc = "run" /\ pc' = "reply") =>
         /\ state'.question = state.question
         /\ state'.schema = loc.schema_text /\ state'.cypher = loc.cypher
    /\ (pc = "reply" /\ pc' = "END") =>
         \A k \in DOMAIN state : state'[k] = state[k]

C10_StagesWriteOnlyTheirKeys == []C10_Keys /\ [][C10_Step]_vars

C10_Witness ==
    /\ pc = "END"
    /\ input # Strip(input)
    /\ state.question = input
    /\ state.rows # <<>>
====
